---- MODULE Spec2Model ----
(***************************************************************************)
(* Model of src/app.py: the resource store (knowledge_base, the resources  *)
(* folder, sync_resources_from_disk and the /get_resources,                *)
(* /upload_resource and /clear_resources handlers) and the                 *)
(* /generate_prompt pipeline.                                              *)
(*                                                                         *)
(* A filename is the sequence of its dot-separated parts: <<"a","txt">> is *)
(* "a.txt", <<"README">> is "README", <<"">> is the empty filename.        *)
(* A text is a sequence of characters, where the element Stretch stands    *)
(* for StretchLen consecutive characters "p", so that a text longer than   *)
(* the context budget can be held.  A file body is a record                *)
(* [kind, bytes, parts]: kind "text" carries raw bytes, kind "pdf" carries *)
(* the page texts a PDF reader finds, kind "epub" carries the items of the *)
(* container, kind "corrupt" is a body no reader can parse.                *)
(***************************************************************************)
EXTENDS Integers, Sequences, FiniteSets, TLC

\* ------------------------------------------------------------------ bounds
\* The most files external agents keep in the resources folder.
MaxDirFiles == 5
\* The most files whose deletion fails in one clear_resources request.
MaxUndeletable == 1

\* ------------------------------------------------------- program constants
MAX_FILES == 4
CONTEXT_CHARS == 40000    \* content[:40000], line 208
ALLOWED_EXTENSIONS == {"txt", "pdf", "epub"}

\* --------------------------------------------------------- string helpers
\* Stretch stands for StretchLen characters "p" in a row.
Stretch == "p...p"
StretchLen == CONTEXT_CHARS - 1

\* The number of characters an element of a text stands for.
CharCount(c) == IF c = Stretch THEN StretchLen ELSE 1

\* len(text)
RECURSIVE TextLen(_)
TextLen(text) == IF text = <<>> THEN 0 ELSE CharCount(Head(text)) + TextLen(Tail(text))

\* str.lower() on the extension tokens of the modelled world.
Lower(s) ==
    CASE s = "TXT" -> "txt"
      [] s = "PDF" -> "pdf"
      [] s = "EPUB" -> "epub"
      [] s = "Exe" -> "exe"
      [] OTHER -> s

\* filename.rsplit('.', 1)[1]: the part after the last dot.
RSplitExt(filename) == filename[Len(filename)]

\* '.' in filename
HasDot(filename) == Len(filename) > 1

\* line 31
allowed_file(filename) ==
    HasDot(filename) /\ Lower(RSplitExt(filename)) \in ALLOWED_EXTENSIONS

\* ------------------------------------------------------- text extraction
RECURSIVE Concat(_)
Concat(seqs) == IF seqs = <<>> THEN <<>> ELSE Head(seqs) \o Concat(Tail(seqs))

\* "\n".join(texts)
RECURSIVE JoinNewline(_)
JoinNewline(texts) ==
    IF texts = <<>> THEN <<>>
    ELSE IF Len(texts) = 1 THEN texts[1]
    ELSE texts[1] \o <<"\n">> \o JoinNewline(Tail(texts))

\* open(..., encoding='utf-8', errors='ignore').read(): ASCII bytes decode to
\* themselves, the two-byte sequence C3 A9 decodes to one character, and
\* bytes that do not decode are dropped.
IsAscii(b) == b \in {"h", "i", "k", "\r", "\n"}

RECURSIVE DecodeUtf8Ignore(_)
DecodeUtf8Ignore(bytes) ==
    IF bytes = <<>> THEN <<>>
    ELSE IF IsAscii(bytes[1]) THEN <<bytes[1]>> \o DecodeUtf8Ignore(Tail(bytes))
    ELSE IF bytes[1] = "C3" /\ Len(bytes) > 1 /\ bytes[2] = "A9"
         THEN <<"e'">> \o DecodeUtf8Ignore(Tail(Tail(bytes)))
    ELSE DecodeUtf8Ignore(Tail(bytes))

\* open(file_path, 'r', ...): the file is read in text mode with universal
\* newlines, so "\r\n" and a lone "\r" are read as "\n".
RECURSIVE UniversalNewlines(_)
UniversalNewlines(text) ==
    IF text = <<>> THEN <<>>
    ELSE IF text[1] = "\r" /\ Len(text) > 1 /\ text[2] = "\n"
         THEN <<"\n">> \o UniversalNewlines(Tail(Tail(text)))
    ELSE IF text[1] = "\r" THEN <<"\n">> \o UniversalNewlines(Tail(text))
    ELSE <<text[1]>> \o UniversalNewlines(Tail(text))

\* extract_text_from_pdf: every page with text contributes text + "\n"; a body
\* PdfReader cannot read raises inside the try and yields "".
extract_text_from_pdf(body) ==
    IF body.kind # "pdf" THEN <<>>
    ELSE Concat([i \in 1..Len(body.parts) |->
                    IF body.parts[i] # <<>> THEN body.parts[i] \o <<"\n">> ELSE <<>>])

\* BeautifulSoup(...).get_text(): the markup tokens are dropped.
IsTag(c) == c \in {"<p>", "</p>"}
GetText(content) == SelectSeq(content, LAMBDA c : ~IsTag(c))

RECURSIVE DocumentTexts(_)
DocumentTexts(items) ==
    IF items = <<>> THEN <<>>
    ELSE IF Head(items).type = "ITEM_DOCUMENT"
         THEN <<GetText(Head(items).content)>> \o DocumentTexts(Tail(items))
    ELSE DocumentTexts(Tail(items))

extract_text_from_epub(body) ==
    IF body.kind # "epub" THEN <<>>
    ELSE JoinNewline(DocumentTexts(body.parts))

load_file_content(body, filename) ==
    LET ext == Lower(RSplitExt(filename)) IN
    IF ext = "pdf" THEN extract_text_from_pdf(body)
    ELSE IF ext = "epub" THEN extract_text_from_epub(body)
    ELSE UniversalNewlines(DecodeUtf8Ignore(body.bytes))

\* ------------------------------------------------------------ the universe
TextBody(bytes) == [kind |-> "text", bytes |-> bytes, parts |-> <<>>]
CorruptBody == [kind |-> "corrupt", bytes |-> <<"FF">>, parts |-> <<>>]
PdfBody(pages) == [kind |-> "pdf", bytes |-> <<>>, parts |-> pages]
EpubBody(items) == [kind |-> "epub", bytes |-> <<>>, parts |-> items]

\* The folder holds each file's body under a short id; Body gives the body.
\* Opening a file that is not there raises, and every reader answers "".
Body(id) ==
    CASE id = "empty" -> TextBody(<<>>)
      [] id = "hi" -> TextBody(<<"h", "i">>)
      [] id = "crlf" -> TextBody(<<"h", "\r", "\n", "i", "\r">>)
      [] id = "mixed" -> TextBody(<<"h", "FF", "C3", "A9", "k">>)
      [] id = "absent" -> [kind |-> "absent", bytes |-> <<>>, parts |-> <<>>]
      [] id = "corrupt" -> CorruptBody
      [] id = "pdf" -> PdfBody(<< <<"p">>, <<>>, <<"q">> >>)
      [] id = "long" -> PdfBody(<< <<"p", Stretch>>, <<"q">> >>)
      [] id = "epub" ->
            EpubBody(<< [type |-> "ITEM_DOCUMENT", content |-> <<"<p>", "x", "</p>">>],
                        [type |-> "ITEM_IMAGE", content |-> <<"z">>],
                        [type |-> "ITEM_DOCUMENT", content |-> <<"y">>] >>)

Absent == "absent"

PlainName == <<"a", "txt">>
OtherPlainName == <<"e", "txt">>
PdfName == <<"b", "pdf">>
EpubName == <<"c", "epub">>
UpperName == <<"d", "tar", "TXT">>
ExeName == <<"notes", "Exe">>
NoDotName == <<"README">>
EmptyName == <<"">>

\* Names of files that can be in the resources folder.
DirNames == {PlainName, OtherPlainName, PdfName, EpubName, UpperName, ExeName}

\* The order in which os.listdir reports the files that are present.
ListingOrder == <<UpperName, ExeName, PdfName, PlainName, OtherPlainName, EpubName>>

\* The bodies a file of a given name can have.
BodiesOf(filename) ==
    CASE filename = PlainName -> {"empty", "hi"}
      [] filename = PdfName -> {"corrupt", "pdf"}
      [] filename = EpubName -> {"epub"}
      [] filename = UpperName -> {"mixed"}
      [] filename = OtherPlainName -> {"crlf"}
      [] OTHER -> {"hi"}

\* ------------------------------------------------------------------- state
VARIABLES
    dir,              \* the resources folder: filename -> body, or Absent
    folder,           \* whether the resources folder is there to be listed
    knowledge_base,   \* the dict, in insertion order: <<[name, content], ...>>
    resp,             \* the response the last step returned (NoResponse
                      \* when the last step was not a request)
    \* one /generate_prompt invocation
    phase,            \* where the invocation stands
    request,          \* request.json
    processed_prompt, \* the working request
    was_translated,
    knowledge_context,\* the blocks assembled in phase 2
    calls,            \* the model calls issued so far, with their outcomes
    outcome,          \* the answer of the invocation
    \* request threads that run the store handlers statement by statement
    threads,          \* per thread: where it stands and its local variables
    started           \* the number of requests the threads have taken up

pipeVars == <<phase, request, processed_prompt, was_translated, knowledge_context,
              calls, outcome>>

thrVars == <<threads, started>>

vars == <<dir, folder, knowledge_base, resp, phase, request, processed_prompt, was_translated,
          knowledge_context, calls, outcome, threads, started>>

storeVars == <<dir, folder, knowledge_base, resp>>

\* os.listdir(UPLOAD_FOLDER)
listdir(d) == SelectSeq(ListingOrder, LAMBDA f : d[f] # Absent)

Keys(kb) == {kb[i].name : i \in 1..Len(kb)}

\* knowledge_base[filename] = content: a new key goes last, an existing key
\* keeps its place.
DictSet(kb, filename, content) ==
    IF filename \in Keys(kb)
    THEN [i \in 1..Len(kb) |->
            IF kb[i].name = filename THEN [name |-> filename, content |-> content]
            ELSE kb[i]]
    ELSE Append(kb, [name |-> filename, content |-> content])

\* The selection without the count: every allowed file is loaded.
SyncSelectsUncapped(filename, count) == allowed_file(filename)

\* line 85: the files the loop of sync_resources_from_disk goes on to load.
SyncSelects(filename, count) == allowed_file(filename) /\ count < MAX_FILES

\* The recording without the test: an empty text is recorded too.
SyncRecordsAlways(content) == TRUE

\* line 88: the loaded contents the loop records.
SyncRecords(content) == content # <<>>

\* The loop of sync_resources_from_disk over current_files.
RECURSIVE SyncLoop(_, _, _, _)
SyncLoop(d, files, kb, count) ==
    IF files = <<>> THEN kb
    ELSE LET filename == Head(files) IN
         IF SyncSelects(filename, count)
         THEN LET content == load_file_content(Body(d[filename]), filename) IN
              IF SyncRecords(content)
              THEN SyncLoop(d, Tail(files), DictSet(kb, filename, content), count + 1)
              ELSE SyncLoop(d, Tail(files), kb, count)
         ELSE SyncLoop(d, Tail(files), kb, count)

\* sync_resources_from_disk() run to completion on folder d: the dict is
\* cleared and then filled from the listing.
sync_resources_from_disk(d) == SyncLoop(d, listdir(d), <<>>, 0)

\* A list that counts a terminator with every text.
FilesOfWithTerminator(kb) ==
    [i \in 1..Len(kb) |-> [name |-> kb[i].name, size |-> TextLen(kb[i].content) + 1]]

\* The files list of the /get_resources answer.
FilesOf(kb) == [i \in 1..Len(kb) |-> [name |-> kb[i].name, size |-> TextLen(kb[i].content)]]

Response(op, status, message, body) ==
    [op |-> op, status |-> status, message |-> message, body |-> body]

NoResponse == Response("none", 0, "", <<>>)

\* The folders with which the process can start.
Folders == {d \in [DirNames -> UNION {BodiesOf(f) : f \in DirNames} \cup {Absent}] :
              \A f \in DirNames : d[f] \in BodiesOf(f) \cup {Absent}}

FileCount(d) == Cardinality({f \in DirNames : d[f] # Absent})

\* The filenames a client can upload under.
UploadNames == DirNames \cup {NoDotName, EmptyName}

UploadBodies(filename) == IF filename \in DirNames THEN BodiesOf(filename)
                          ELSE {"hi"}

\* ------------------------------------------ the store, one request at a time
StoreInit ==
    /\ dir \in Folders
    /\ folder = TRUE                                        \* line 25
    /\ knowledge_base = sync_resources_from_disk(dir)      \* lines 28, 94
    /\ resp = NoResponse

\* A sync whose count goes on from the size of the dict it found.
StartupCountsOn ==
    /\ knowledge_base' = SyncLoop(dir, listdir(dir), <<>>, Len(knowledge_base))
    /\ resp' = Response("startup", 0, IF resp.op = "startup" THEN "again" ELSE "", <<>>)
    /\ folder' = TRUE
    /\ UNCHANGED <<dir, pipeVars, thrVars>>

\* The process starts over: the folder is made if it is not there (line 25),
\* knowledge_base = {} and the sync of line 94.  The
\* message tells a sync that follows a sync directly from a first one.
Startup ==
    /\ knowledge_base' = sync_resources_from_disk(dir)
    /\ resp' = Response("startup", 0, IF resp.op = "startup" THEN "again" ELSE "", <<>>)
    /\ folder' = TRUE
    /\ UNCHANGED <<dir, pipeVars, thrVars>>

\* An external agent writes a file into the folder, or replaces one.
ExternalPut(filename, body) ==
    /\ folder
    /\ dir[filename] # Absent \/ FileCount(dir) < MaxDirFiles
    /\ dir' = [dir EXCEPT ![filename] = body]
    /\ resp' = NoResponse
    /\ UNCHANGED <<folder, knowledge_base, pipeVars, thrVars>>

\* An external agent removes a file from the folder.
ExternalRemove(filename) ==
    /\ dir[filename] # Absent
    /\ dir' = [dir EXCEPT ![filename] = Absent]
    /\ resp' = NoResponse
    /\ UNCHANGED <<folder, knowledge_base, pipeVars, thrVars>>

\* An external agent removes the resources folder with all its files.
ExternalRemoveFolder ==
    /\ folder
    /\ folder' = FALSE
    /\ dir' = [f \in DirNames |-> Absent]
    /\ resp' = NoResponse
    /\ UNCHANGED <<knowledge_base, pipeVars, thrVars>>

\* An external agent makes the resources folder anew.
ExternalMakeFolder ==
    /\ ~folder
    /\ folder' = TRUE
    /\ resp' = NoResponse
    /\ UNCHANGED <<dir, knowledge_base, pipeVars, thrVars>>

\* A sync that clears the dict before it lists the folder.
FailedSyncClearsFirst(kb) == <<>>

\* lines 78-81: os.listdir raises before knowledge_base.clear() is reached, so
\* a sync that cannot list the folder leaves the dict it found.
FailedSync(kb) == kb

\* A list that syncs whatever the dict holds.
LazySyncAlways(kb, d) == sync_resources_from_disk(d)

\* lines 128-129: the dict get_resources reads, after its lazy sync.
LazySync(kb, d) == IF kb = <<>> THEN sync_resources_from_disk(d) ELSE kb

\* GET /get_resources.  listable: whether os.listdir succeeds, should the lazy
\* sync run; its exception leaves the handler before the dict is touched.
get_resources(listable) ==
    IF knowledge_base = <<>> /\ ~listable
    THEN /\ resp' = Response("get_resources", 500, "listdir failed", <<>>)
         /\ knowledge_base' = FailedSync(knowledge_base)
         /\ UNCHANGED dir
    ELSE LET kb == LazySync(knowledge_base, dir)
             files == FilesOf(kb)
         IN /\ knowledge_base' = kb
            /\ resp' = Response("get_resources", 200, "",
                                [files |-> files, count |-> Len(files), max |-> MAX_FILES])
            /\ UNCHANGED dir

\* The handler without its first sync: the checks read the dict as it is.
PreCheckSyncSkipped(kb, d) == kb

\* A sync that patches the dict it finds instead of rebuilding it.
PreCheckSyncPatches(kb, d) == SyncLoop(d, listdir(d), kb, 0)

\* line 143: the sync upload_resource runs before it checks anything.
PreCheckSync(kb, d) == sync_resources_from_disk(d)

\* line 145: the capacity check of upload_resource.
AtCapacity(kb) == Len(kb) >= MAX_FILES

\* The save without the second sync.
SaveWithoutReload(kb1, filename, body, listable2) ==
    /\ dir' = [dir EXCEPT ![filename] = body]
    /\ knowledge_base' = kb1
    /\ resp' = Response("upload_resource", 200, "File processed successfully",
                      [filename |-> filename, count |-> Len(kb1)])

\* lines 148-160: the file is saved, the dict is rebuilt, the request answered.
SaveAndReload(kb1, filename, body, listable2) ==
    LET saved == [dir EXCEPT ![filename] = body]
        kb2 == sync_resources_from_disk(saved)
    IN /\ dir' = saved
       /\ IF listable2
          THEN /\ knowledge_base' = kb2
               /\ resp' = Response("upload_resource", 200, "File processed successfully",
                                   [filename |-> filename, count |-> Len(kb2)])
          ELSE /\ knowledge_base' = FailedSync(kb1)
               /\ resp' = Response("upload_resource", 500, "listdir failed", <<>>)

\* POST /upload_resource.  hasFile: 'file' in request.files; listable1 and
\* listable2: whether os.listdir succeeds in the first and the second sync.
upload_resource(hasFile, filename, body, listable1, listable2) ==
    IF ~hasFile
    THEN /\ resp' = Response("upload_resource", 400, "No file part", <<>>)
         /\ UNCHANGED <<dir, knowledge_base>>
    ELSE IF filename = EmptyName
    THEN /\ resp' = Response("upload_resource", 400, "No selected file", <<>>)
         /\ UNCHANGED <<dir, knowledge_base>>
    ELSE IF ~listable1
    THEN /\ resp' = Response("upload_resource", 500, "listdir failed", <<>>)
         /\ knowledge_base' = FailedSync(knowledge_base)
         /\ UNCHANGED dir
    ELSE LET kb1 == PreCheckSync(knowledge_base, dir) IN
         IF AtCapacity(kb1)
         THEN /\ knowledge_base' = kb1
              /\ resp' = Response("upload_resource", 403, "Maximum resources allowed", <<>>)
              /\ UNCHANGED dir
         ELSE IF allowed_file(filename)
         THEN SaveAndReload(kb1, filename, body, listable2)
         ELSE /\ knowledge_base' = kb1
              /\ resp' = Response("upload_resource", 400, "Invalid file type", <<>>)
              /\ UNCHANGED dir

\* A clear that deletes the files and leaves the dict as it is.
clear_resources_keeps_store(listable, undeletable) ==
    IF ~listable
    THEN /\ resp' = Response("clear_resources", 500, "listdir failed", <<>>)
         /\ UNCHANGED <<dir, knowledge_base>>
    ELSE /\ dir' = [f \in DirNames |-> IF f \in undeletable THEN dir[f] ELSE Absent]
         /\ UNCHANGED knowledge_base
         /\ resp' = Response("clear_resources", 200, "All resources cleared",
                             [count |-> 0, failed |-> undeletable])

\* A clear whose loop ends at the first deletion that fails.
clear_resources_stops_at_failure(listable, undeletable) ==
    LET At(f) == CHOOSE i \in 1..Len(ListingOrder) : ListingOrder[i] = f IN
    IF ~listable
    THEN /\ resp' = Response("clear_resources", 500, "listdir failed", <<>>)
         /\ UNCHANGED <<dir, knowledge_base>>
    ELSE /\ dir' = [f \in DirNames |->
                      IF \E g \in undeletable : At(g) <= At(f) THEN dir[f] ELSE Absent]
         /\ knowledge_base' = <<>>
         /\ resp' = Response("clear_resources", 200, "All resources cleared",
                             [count |-> 0, failed |-> undeletable])

\* POST /clear_resources.  undeletable: the files whose os.unlink raises; each
\* is logged (line 173), and failed tells which they were.
clear_resources(listable, undeletable) ==
    IF ~listable
    THEN /\ resp' = Response("clear_resources", 500, "listdir failed", <<>>)
         /\ UNCHANGED <<dir, knowledge_base>>
    ELSE /\ dir' = [f \in DirNames |-> IF f \in undeletable THEN dir[f] ELSE Absent]
         /\ knowledge_base' = <<>>
         /\ resp' = Response("clear_resources", 200, "All resources cleared",
                             [count |-> 0, failed |-> undeletable])

GetResources ==
    /\ get_resources(folder)
    /\ UNCHANGED <<folder, pipeVars, thrVars>>

UploadResource ==
    /\ \/ upload_resource(FALSE, EmptyName, "empty", TRUE, TRUE)
       \/ \E filename \in UploadNames :
            \E body \in UploadBodies(filename) :
              upload_resource(TRUE, filename, body, folder, folder)
    /\ UNCHANGED <<folder, pipeVars, thrVars>>

ClearResources ==
    /\ \E undeletable \in SUBSET {f \in DirNames : dir[f] # Absent} :
         /\ Cardinality(undeletable) <= MaxUndeletable
         /\ clear_resources(folder, undeletable)
    /\ UNCHANGED <<folder, pipeVars, thrVars>>

External ==
    \E filename \in DirNames :
      \/ \E body \in BodiesOf(filename) : ExternalPut(filename, body)
      \/ ExternalRemove(filename)
      \/ ExternalRemoveFolder
      \/ ExternalMakeFolder

\* ------------------------------------------------- /generate_prompt pipeline
\* A text of the pipeline is a sequence of code points.
PERSIAN_FIRST == 1536     \* U+0600
PERSIAN_LAST == 1791      \* U+06FF

\* A test that takes every character beyond ASCII for the script.
is_persian_wide(text) == \E i \in 1..Len(text) : text[i] > 127

\* lines 96-98: some character lies in [\u0600-\u06FF].
is_persian(text) ==
    \E i \in 1..Len(text) : text[i] >= PERSIAN_FIRST /\ text[i] <= PERSIAN_LAST

\* request.json: a field that is absent reads as None.
Data(has_api_key, api_key, has_prompt, prompt) ==
    [has_api_key |-> has_api_key, api_key |-> api_key,
     has_prompt |-> has_prompt, prompt |-> prompt]

Prompts == { <<104, 105>>, <<1536>>, <<104, 1791>>, <<1535, 1792>> }

Requests ==
    {Data(TRUE, "key", TRUE, prompt) : prompt \in Prompts}
    \cup {Data(FALSE, "", TRUE, <<104, 105>>), Data(TRUE, "", TRUE, <<1536>>),
          Data(TRUE, "key", FALSE, <<>>), Data(TRUE, "key", TRUE, <<>>)}

NoRequest == Data(FALSE, "", FALSE, <<>>)

\* The validation that looks at the credential alone.
MissingFieldsKeyOnly(data) == ~data.has_api_key \/ data.api_key = ""

\* line 184: not api_key or not user_prompt
MissingFields(data) ==
    \/ ~data.has_api_key \/ data.api_key = ""
    \/ ~data.has_prompt \/ data.prompt = <<>>

\* What the gateway answers when a call returns, and what it raises.
TRANSLATION_TEXT == <<116, 114>>
GENERATED_TEXT == <<35, 103>>
GatewayErrors == {"quota", "unavailable"}

Call(kind, tools, instruction) ==
    [kind |-> kind, tools |-> tools, instruction |-> instruction,
     state |-> "pending", error |-> ""]

Returned(call) == [call EXCEPT !.state = "ok"]
Raised(call, error) == [call EXCEPT !.state = "error", !.error = error]

SetLast(cs, call) == [cs EXCEPT ![Len(cs)] = call]

\* The first n characters of a text: the elements that fit into n
\* characters, and of a stretch that does not fit the characters that do.
RECURSIVE TakeChars(_, _)
TakeChars(content, n) ==
    IF content = <<>> \/ n = 0 THEN <<>>
    ELSE IF CharCount(Head(content)) <= n
         THEN <<Head(content)>> \o TakeChars(Tail(content), n - CharCount(Head(content)))
    ELSE [i \in 1..n |-> "p"]

\* A cut at the budget of all resources together.
TruncateToWholeBudget(content, n) == TakeChars(content, n * MAX_FILES)

\* content[:n]
Truncate(content, n) == TakeChars(content, n)

\* lines 206-208: one block per entry of the dict, in its order.
ContextOf(kb) ==
    [i \in 1..Len(kb) |->
        [fname |-> kb[i].name, text |-> Truncate(kb[i].content, CONTEXT_CHARS)]]

\* lines 211-222: the instruction block.
Instruction(context, prompt) == [context |-> context, request |-> prompt]

\* lines 236-240
MetaInfo(translated, prompt, context, kb) ==
    (IF translated THEN << [note |-> "Translated input", arg |-> prompt] >> ELSE <<>>)
    \o (IF context # <<>> THEN << [note |-> "Utilized internal resources", arg |-> Len(kb)] >>
        ELSE <<>>)

NoOutcome == [status |-> 0, result |-> <<>>, meta |-> <<>>, error |-> ""]
Success(text, meta) == [status |-> 200, result |-> text, meta |-> meta, error |-> ""]
Failure(status, error) == [status |-> status, result |-> <<>>, meta |-> <<>>, error |-> error]

Terminal == {"SUCCESS", "FAILURE", "REJECTED"}

PipeIdle ==
    /\ phase = "IDLE"
    /\ request = NoRequest
    /\ processed_prompt = <<>>
    /\ was_translated = FALSE
    /\ knowledge_context = <<>>
    /\ calls = <<>>
    /\ outcome = NoOutcome

\* lines 180-187, 196-197: a request arrives and is validated.
ReceiveRequest(data) ==
    /\ phase \in Terminal \cup {"IDLE"}
    /\ request' = data
    /\ calls' = <<>>
    /\ knowledge_context' = <<>>
    /\ was_translated' = FALSE
    /\ IF MissingFields(data)
       THEN /\ phase' = "REJECTED"
            /\ processed_prompt' = <<>>
            /\ outcome' = Failure(400, "Missing API Key or Prompt")
       ELSE /\ phase' = "START"
            /\ processed_prompt' = data.prompt
            /\ outcome' = NoOutcome
    /\ UNCHANGED <<storeVars, thrVars>>

\* line 199: the translation call is issued, or phase 1 is skipped.
NeedsTranslation(text) == is_persian(text)

Phase1 ==
    /\ phase = "START"
    /\ IF NeedsTranslation(request.prompt)
       THEN /\ calls' = Append(calls, Call("translate", FALSE, request.prompt))
            /\ phase' = "TRANSLATE"
       ELSE /\ phase' = "SKIP"
            /\ UNCHANGED calls
    /\ UNCHANGED <<request, processed_prompt, was_translated, knowledge_context, outcome>>
    /\ UNCHANGED <<storeVars, thrVars>>

\* An outer handler that starts the pipeline over instead of answering.
FatalErrorRestarts(error) ==
    /\ phase' = "START"
    /\ outcome' = NoOutcome

\* lines 247-249: the handler of the outer try.
FatalError(error) ==
    /\ phase' = "FAILURE"
    /\ outcome' = Failure(500, error)

\* A translation failure that is swallowed: the pipeline goes on to phase 2.
TranslationFailedIgnored(error) ==
    /\ phase' = "ASSEMBLE_CONTEXT"
    /\ UNCHANGED outcome

\* line 201 inside the try of line 189: what a failed translation call leads to.
TranslationFailed(error) == FatalError(error)

\* lines 201-203: the translation call returns its text, or raises.
TranslateReturns ==
    /\ phase = "TRANSLATE"
    /\ \/ /\ calls' = SetLast(calls, Returned(calls[Len(calls)]))
          /\ processed_prompt' = TRANSLATION_TEXT
          /\ was_translated' = TRUE
          /\ phase' = "ASSEMBLE_CONTEXT"
          /\ UNCHANGED outcome
       \/ \E error \in GatewayErrors :
            /\ calls' = SetLast(calls, Raised(calls[Len(calls)], error))
            /\ TranslationFailed(error)
            /\ UNCHANGED <<processed_prompt, was_translated>>
    /\ UNCHANGED <<request, knowledge_context>>
    /\ UNCHANGED <<storeVars, thrVars>>

Skip ==
    /\ phase = "SKIP"
    /\ phase' = "ASSEMBLE_CONTEXT"
    /\ UNCHANGED <<request, processed_prompt, was_translated, knowledge_context, calls,
                   outcome>>
    /\ UNCHANGED <<storeVars, thrVars>>

\* lines 206-228: the context is assembled from the dict and the call with the
\* search tool is issued.
AssembleContext ==
    /\ phase = "ASSEMBLE_CONTEXT"
    /\ knowledge_context' = ContextOf(knowledge_base)
    /\ calls' = Append(calls, Call("generate", TRUE,
                                   Instruction(ContextOf(knowledge_base), processed_prompt)))
    /\ phase' = "GENERATE_WITH_TOOLS"
    /\ UNCHANGED <<request, processed_prompt, was_translated, outcome>>
    /\ UNCHANGED <<storeVars, thrVars>>

\* lines 234-245
Respond ==
    /\ phase' = "SUCCESS"
    /\ outcome' = Success(GENERATED_TEXT,
                          MetaInfo(was_translated, request.prompt, knowledge_context,
                                   knowledge_base))

\* A retry that keeps the search tool.
FallbackCallWithTools(instruction) == Call("generate", TRUE, instruction)

\* lines 229-232: the call issued after the call with tools has failed.
FallbackCall(instruction) == Call("generate", FALSE, instruction)

\* lines 225-232: the call with tools returns, or raises and the call without
\* tools is issued.
ToolsCallReturns ==
    /\ phase = "GENERATE_WITH_TOOLS"
    /\ \/ /\ calls' = SetLast(calls, Returned(calls[Len(calls)]))
          /\ Respond
       \/ \E error \in GatewayErrors :
            /\ calls' = Append(SetLast(calls, Raised(calls[Len(calls)], error)),
                               FallbackCall(calls[Len(calls)].instruction))
            /\ phase' = "GENERATE_NO_TOOLS"
            /\ UNCHANGED outcome
    /\ UNCHANGED <<request, processed_prompt, was_translated, knowledge_context>>
    /\ UNCHANGED <<storeVars, thrVars>>

\* line 232: the call without tools returns, or raises into the outer handler.
PlainCallReturns ==
    /\ phase = "GENERATE_NO_TOOLS"
    /\ \/ /\ calls' = SetLast(calls, Returned(calls[Len(calls)]))
          /\ Respond
       \/ \E error \in GatewayErrors :
            /\ calls' = SetLast(calls, Raised(calls[Len(calls)], error))
            /\ FatalError(error)
    /\ UNCHANGED <<request, processed_prompt, was_translated, knowledge_context>>
    /\ UNCHANGED <<storeVars, thrVars>>

GeneratePrompt == \E data \in Requests : ReceiveRequest(data)

PipelineStep ==
    \/ Phase1
    \/ TranslateReturns
    \/ Skip
    \/ AssembleContext
    \/ ToolsCallReturns
    \/ PlainCallReturns

\* ------------------------------------------- the store, requests in parallel
\* The development server serves each request on a thread of its own, and the
\* handlers take no lock: a thread runs one statement of its handler per step.
Threads == {1, 2}
MaxRequests == 2

IdleThread ==
    [pc |-> "idle", ret |-> "idle", filename |-> EmptyName, body |-> Absent,
     current_files |-> <<>>, count |-> 0, before |-> <<>>]

ThreadsIdle ==
    /\ threads = [t \in Threads |-> IdleThread]
    /\ started = 0

\* Thread t goes on to th; the step returns no response.
Goes(t, th) ==
    /\ threads' = [threads EXCEPT ![t] = th]
    /\ resp' = NoResponse

\* Thread t answers its request and is free again.
Answers(t, response) ==
    /\ threads' = [threads EXCEPT ![t] = IdleThread]
    /\ resp' = response

\* A thread takes up POST /upload_resource (lines 136-143).
StartUpload(t, filename, body) ==
    /\ threads[t].pc = "idle"
    /\ started < MaxRequests
    /\ started' = started + 1
    /\ Goes(t, [IdleThread EXCEPT !.pc = "list", !.ret = "check",
                                  !.filename = filename, !.body = body])
    /\ UNCHANGED <<dir, knowledge_base, pipeVars, folder>>

\* A thread takes up POST /clear_resources (line 167).
StartClear(t) ==
    /\ threads[t].pc = "idle"
    /\ started < MaxRequests
    /\ started' = started + 1
    /\ Goes(t, [IdleThread EXCEPT !.pc = "unlink", !.current_files = listdir(dir)])
    /\ UNCHANGED <<dir, knowledge_base, pipeVars, folder>>

\* A thread takes up GET /get_resources (lines 128-129).
StartGet(t) ==
    /\ threads[t].pc = "idle"
    /\ started < MaxRequests
    /\ started' = started + 1
    /\ Goes(t, [IdleThread EXCEPT !.pc = IF knowledge_base = <<>> THEN "list" ELSE "read",
                                  !.ret = "read"])
    /\ UNCHANGED <<dir, knowledge_base, pipeVars, folder>>

\* line 78: current_files = os.listdir(UPLOAD_FOLDER)
SyncList(t) ==
    /\ threads[t].pc = "list"
    /\ Goes(t, [threads[t] EXCEPT !.pc = "clear", !.current_files = listdir(dir)])
    /\ UNCHANGED <<dir, knowledge_base, started, pipeVars, folder>>

\* lines 81-83: knowledge_base.clear(); count = 0
SyncClear(t) ==
    /\ threads[t].pc = "clear"
    /\ knowledge_base' = <<>>
    /\ Goes(t, [threads[t] EXCEPT !.pc = "loop", !.count = 0, !.before = knowledge_base])
    /\ UNCHANGED <<dir, started, pipeVars, folder>>

\* lines 84-91: one turn of the loop, or its end.
SyncLoad(t) ==
    /\ threads[t].pc = "loop"
    /\ LET th == threads[t]
           filename == Head(th.current_files)
           content == load_file_content(Body(dir[filename]), filename)
       IN IF th.current_files = <<>>
          THEN /\ Goes(t, [th EXCEPT !.pc = th.ret])
               /\ UNCHANGED knowledge_base
          ELSE IF SyncSelects(filename, th.count) /\ SyncRecords(content)
          THEN /\ knowledge_base' = DictSet(knowledge_base, filename, content)
               /\ Goes(t, [th EXCEPT !.current_files = Tail(th.current_files),
                                     !.count = th.count + 1])
          ELSE /\ Goes(t, [th EXCEPT !.current_files = Tail(th.current_files)])
               /\ UNCHANGED knowledge_base
    /\ UNCHANGED <<dir, started, pipeVars, folder>>

\* lines 145-148, 162: the capacity check and the extension check.
UploadCheck(t) ==
    /\ threads[t].pc = "check"
    /\ IF AtCapacity(knowledge_base)
       THEN Answers(t, Response("upload_resource", 403, "Maximum resources allowed", <<>>))
       ELSE IF allowed_file(threads[t].filename)
       THEN Goes(t, [threads[t] EXCEPT !.pc = "save"])
       ELSE Answers(t, Response("upload_resource", 400, "Invalid file type", <<>>))
    /\ UNCHANGED <<dir, knowledge_base, started, pipeVars, folder>>

\* lines 149-154: file.save(save_path), then the second sync.
UploadSave(t) ==
    /\ threads[t].pc = "save"
    /\ dir' = [dir EXCEPT ![threads[t].filename] = threads[t].body]
    /\ Goes(t, [threads[t] EXCEPT !.pc = "list", !.ret = "done"])
    /\ UNCHANGED <<knowledge_base, started, pipeVars, folder>>

\* lines 156-160
UploadDone(t) ==
    /\ threads[t].pc = "done"
    /\ Answers(t, Response("upload_resource", 200, "File processed successfully",
                           [filename |-> threads[t].filename,
                            count |-> Len(knowledge_base)]))
    /\ UNCHANGED <<dir, knowledge_base, started, pipeVars, folder>>

\* lines 167-175: one file is unlinked (one that is gone raises, which is
\* logged), or the loop is over and the dict is cleared.
ClearUnlink(t) ==
    /\ threads[t].pc = "unlink"
    /\ LET th == threads[t] IN
       IF th.current_files = <<>>
       THEN /\ knowledge_base' = <<>>
            /\ Answers(t, Response("clear_resources", 200, "All resources cleared",
                                   [count |-> 0]))
            /\ UNCHANGED dir
       ELSE /\ dir' = [dir EXCEPT ![Head(th.current_files)] = Absent]
            /\ Goes(t, [th EXCEPT !.current_files = Tail(th.current_files)])
            /\ UNCHANGED knowledge_base
    /\ UNCHANGED <<started, pipeVars, folder>>

\* lines 131-132: the answer is built from the dict as it is now.
GetRead(t) ==
    /\ threads[t].pc = "read"
    /\ Answers(t, Response("get_resources", 200, "",
                           [files |-> FilesOf(knowledge_base),
                            count |-> Len(knowledge_base), max |-> MAX_FILES]))
    /\ UNCHANGED <<dir, knowledge_base, started, pipeVars, folder>>

\* The folder the parallel requests start from, and what they upload.
ConcFolder ==
    [f \in DirNames |-> CASE f = PdfName -> "pdf"
                          [] f = EpubName -> "epub"
                          [] f = UpperName -> "mixed"
                          [] OTHER -> Absent]

ConcInit ==
    /\ dir = ConcFolder
    /\ folder = TRUE
    /\ knowledge_base = sync_resources_from_disk(dir)
    /\ resp = NoResponse
    /\ PipeIdle
    /\ ThreadsIdle

ConcNext ==
    \E t \in Threads :
        \/ \E filename \in {PlainName, OtherPlainName, ExeName} : StartUpload(t, filename, "hi")
        \/ StartClear(t)
        \/ StartGet(t)
        \/ SyncList(t)
        \/ SyncClear(t)
        \/ SyncLoad(t)
        \/ UploadCheck(t)
        \/ UploadSave(t)
        \/ UploadDone(t)
        \/ ClearUnlink(t)
        \/ GetRead(t)

ConcSpec == ConcInit /\ [][ConcNext]_vars

\* --------------------------------------------------------- specifications

\* The store under requests served one at a time, the folder changed by
\* others in between.
StoreNext ==
    \/ Startup
    \/ GetResources
    \/ UploadResource
    \/ ClearResources
    \/ External

\* The process has started (line 94) and no request is in progress.
Init ==
    /\ StoreInit
    /\ PipeIdle
    /\ ThreadsIdle

Spec == Init /\ [][StoreNext]_vars

\* One pipeline invocation at a time next to uploads of plain files and clears.
\* The folder starts empty or with b.pdf, whose text is short or goes beyond
\* CONTEXT_CHARS.
PipeFolders ==
    {[f \in DirNames |-> IF f = PdfName THEN body ELSE Absent] : body \in {Absent, "pdf", "long"}}

PipeInit ==
    /\ dir \in PipeFolders
    /\ folder = TRUE
    /\ knowledge_base = sync_resources_from_disk(dir)
    /\ resp = NoResponse
    /\ PipeIdle
    /\ ThreadsIdle

PipeUpload ==
    /\ \E body \in UploadBodies(PlainName) :
         upload_resource(TRUE, PlainName, body, TRUE, TRUE)
    /\ UNCHANGED <<folder, pipeVars, thrVars>>

PipeClear ==
    /\ clear_resources(TRUE, {})
    /\ UNCHANGED <<folder, pipeVars, thrVars>>

PipeNext ==
    \/ GeneratePrompt
    \/ PipelineStep
    \/ PipeUpload
    \/ PipeClear

\* Every remote call returns or fails, and the handler runs on.
PipeSpec == PipeInit /\ [][PipeNext]_vars /\ WF_vars(PipelineStep)

\* ---------------------------------------------- the store, one at a time
\* The files of folder d from which a text can be loaded.
Loadable(d) ==
    {f \in DirNames : d[f] # Absent /\ allowed_file(f)
                      /\ load_file_content(Body(d[f]), f) # <<>>}

\* The position of a file in the listing.
Position(f) == CHOOSE i \in 1..Len(ListingOrder) : ListingOrder[i] = f

\* The files of S that the listing reports before f.
Before(S, f) == {g \in S : Position(g) < Position(f)}

\* C1: with the store requests run one at a time and the folder changed by
\* others in between, the dict never holds more than MAX_FILES entries.
C1_StoreBounded == Len(knowledge_base) <= MAX_FILES

\* C1 witness: a request was answered while the folder holds more loadable
\* files than MAX_FILES and the dict is full.
C1_Witness ==
    /\ resp.op \in {"get_resources", "upload_resource"}
    /\ Cardinality(Loadable(dir)) > MAX_FILES
    /\ Len(knowledge_base) = MAX_FILES

\* The last step was an upload turned down for its extension or for capacity.
RejectedAdd ==
    /\ resp.op = "upload_resource"
    /\ resp.status \in {400, 403}
    /\ resp.message \in {"Invalid file type", "Maximum resources allowed"}

\* C4 as stated: an upload rejected for its extension or for capacity leaves
\* the folder and the dict as they were before the request.
C4_AsStated ==
    [][RejectedAdd' => dir' = dir /\ knowledge_base' = knowledge_base]_vars

\* C4 amended: an upload rejected for its extension or for capacity leaves the
\* folder as it was, and leaves the dict rebuilt from that folder by the sync
\* the handler runs before its checks: the dict is as before only where it
\* already matched the folder.
C4_RejectedAddResyncs ==
    [][RejectedAdd' =>
          /\ dir' = dir
          /\ Keys(knowledge_base') = {f \in Loadable(dir) :
                                        Cardinality(Before(Loadable(dir), f)) < MAX_FILES}
          /\ \A i \in 1..Len(knowledge_base') :
                knowledge_base'[i].content =
                    load_file_content(Body(dir[knowledge_base'[i].name]),
                                      knowledge_base'[i].name)
          /\ (Keys(knowledge_base) = Keys(knowledge_base')
                => knowledge_base' = knowledge_base)]_vars

\* C4 witness: an upload was rejected for capacity with the dict full.
C4_Witness ==
    /\ RejectedAdd
    /\ resp.status = 403
    /\ Len(knowledge_base) = MAX_FILES

\* The last step ran sync_resources_from_disk to its end and changed nothing
\* after it.
JustSynced ==
    \/ resp.op = "startup"
    \/ resp.op = "upload_resource" /\ resp.status = 200
    \/ RejectedAdd

\* The allowed files among the first MAX_FILES allowed files of the listing.
SelectedAllowed(d) ==
    LET allowed == {f \in DirNames : d[f] # Absent /\ allowed_file(f)}
    IN {f \in allowed : Cardinality(Before(allowed, f)) < MAX_FILES}

\* C5 as stated: after a sync every allowed file selected from the listing is
\* in the dict, a file with empty extracted text included.
C5_AsStated == JustSynced => SelectedAllowed(dir) \subseteq Keys(knowledge_base)

\* C5 amended: after a sync the dict holds exactly the first MAX_FILES files of
\* the listing that are allowed and yield a non-empty text, each with that
\* text; a file whose extraction yields empty text is left out and does not
\* count towards MAX_FILES.
C5_SyncLoadsNonEmpty ==
    JustSynced =>
        /\ Keys(knowledge_base) = {f \in Loadable(dir) :
                                     Cardinality(Before(Loadable(dir), f)) < MAX_FILES}
        /\ \A i \in 1..Len(knowledge_base) :
              /\ knowledge_base[i].content # <<>>
              /\ knowledge_base[i].content =
                    load_file_content(Body(dir[knowledge_base[i].name]),
                                      knowledge_base[i].name)

\* C5 witness: a sync ran over a folder that holds an unreadable PDF and an
\* empty text file next to files that were loaded.
C5_Witness ==
    /\ resp.op = "startup"
    /\ dir[PdfName] = "corrupt"
    /\ dir[PlainName] = "empty"
    /\ Len(knowledge_base) >= 2

\* The names the next /get_resources reports.
ListedNames == {r.name : r \in {FilesOf(LazySync(knowledge_base, dir))[i] :
                                  i \in 1..Len(LazySync(knowledge_base, dir))}}

AcceptedAdd == resp.op = "upload_resource" /\ resp.status = 200

\* C6 as stated: after an accepted upload the file is in the folder and the
\* next list reports an entry for its filename.
C6_AsStated ==
    AcceptedAdd =>
        /\ dir[resp.body.filename] # Absent
        /\ resp.body.filename \in ListedNames

\* C6 amended: after an accepted upload the file is in the folder, and the next
\* list reports an entry for its filename exactly when the text extracted from
\* the uploaded file is not empty.
C6_AcceptedAddListed ==
    AcceptedAdd =>
        LET filename == resp.body.filename IN
        /\ dir[filename] # Absent
        /\ filename \in ListedNames
              <=> load_file_content(Body(dir[filename]), filename) # <<>>

\* C6 witness: an upload under an upper-case extension was accepted and is listed.
C6_Witness ==
    /\ AcceptedAdd
    /\ resp.body.filename = UpperName
    /\ UpperName \in ListedNames
    /\ Len(knowledge_base) = MAX_FILES

\* ------------------------------------------------- the store, in parallel
\* C2: with uploads and clears in parallel, the dict never holds more than
\* MAX_FILES entries, and no more uploads are accepted than there were free
\* slots: the folder never holds more than MAX_FILES loadable files.
C2_AddsSerialized ==
    /\ Len(knowledge_base) <= MAX_FILES
    /\ Cardinality(Loadable(dir)) <= MAX_FILES

\* C3: what /get_resources reports while another thread is inside the loop of
\* a sync is the whole dict from before that sync or the whole dict the sync
\* ends with, never an empty or partly filled one.
C3_SyncSwapAtomic ==
    (resp.op = "get_resources" /\ resp.status = 200) =>
        \A u \in Threads :
            threads[u].pc = "loop" =>
                resp.body.files \in
                    { FilesOf(threads[u].before),
                      FilesOf(SyncLoop(dir, threads[u].current_files, knowledge_base,
                                       threads[u].count)) }

\* ------------------------------------------------------------ the pipeline
IsFailedToolsCall(call) == call.kind = "generate" /\ call.tools /\ call.state = "error"

\* C7: once the call with tools has failed, exactly one more call follows it, a
\* generation call without tools; while it is pending the invocation waits for
\* it, when it returns the invocation ends in SUCCESS with the generated text,
\* and when it fails the invocation ends in FAILURE.
C7_FallbackOnce ==
    \A i \in 1..Len(calls) :
        IsFailedToolsCall(calls[i]) =>
            /\ Len(calls) = i + 1
            /\ calls[i + 1].kind = "generate"
            /\ ~calls[i + 1].tools
            /\ calls[i + 1].state = "pending" => phase = "GENERATE_NO_TOOLS"
            /\ calls[i + 1].state = "ok" =>
                    /\ phase = "SUCCESS"
                    /\ outcome.status = 200
                    /\ outcome.result = GENERATED_TEXT
            /\ calls[i + 1].state = "error" =>
                    /\ phase = "FAILURE"
                    /\ outcome.status = 500

\* C7 witness: the call with tools failed and the call without tools succeeded.
C7_Witness ==
    /\ Len(calls) >= 2
    /\ IsFailedToolsCall(calls[Len(calls) - 1])
    /\ calls[Len(calls)].state = "ok"
    /\ phase = "SUCCESS"

InFlight == {"START", "TRANSLATE", "SKIP", "ASSEMBLE_CONTEXT", "GENERATE_WITH_TOOLS",
             "GENERATE_NO_TOOLS"}

\* The transitions the state machine of the claim allows.
ClaimedEdges ==
    { <<"START", "TRANSLATE">>, <<"START", "SKIP">>,
      <<"TRANSLATE", "ASSEMBLE_CONTEXT">>, <<"SKIP", "ASSEMBLE_CONTEXT">>,
      <<"ASSEMBLE_CONTEXT", "GENERATE_WITH_TOOLS">>,
      <<"GENERATE_WITH_TOOLS", "SUCCESS">>, <<"GENERATE_WITH_TOOLS", "GENERATE_NO_TOOLS">>,
      <<"GENERATE_NO_TOOLS", "SUCCESS">>, <<"GENERATE_NO_TOOLS", "FAILURE">> }

CallsOfKind(kind) == Cardinality({i \in 1..Len(calls) : calls[i].kind = kind})

CallBudget ==
    /\ Len(calls) <= 3
    /\ CallsOfKind("translate") <= 1
    /\ CallsOfKind("generate") <= 2

FollowsEdges(edges) == phase \in InFlight /\ phase' # phase => <<phase, phase'>> \in edges

\* C8 as stated: every invocation moves along START -> (TRANSLATE | SKIP) ->
\* ASSEMBLE_CONTEXT -> GENERATE_WITH_TOOLS -> (SUCCESS | GENERATE_NO_TOOLS ->
\* (SUCCESS | FAILURE)), reaches SUCCESS or FAILURE, and issues at most one
\* translation call and two generation calls.
C8_AsStated ==
    /\ [][FollowsEdges(ClaimedEdges)]_vars
    /\ [](CallBudget)
    /\ (phase \in InFlight ~> phase \in {"SUCCESS", "FAILURE"})

\* C8 amended: as stated, with the transition TRANSLATE -> FAILURE added: an
\* invocation whose translation call fails ends in FAILURE without assembling
\* a context.
C8_StateMachine ==
    /\ [][FollowsEdges(ClaimedEdges \cup { <<"TRANSLATE", "FAILURE">> })]_vars
    /\ [](CallBudget)
    /\ (phase \in InFlight ~> phase \in {"SUCCESS", "FAILURE"})

\* C8 witness: an invocation with a mixed-script request ended in FAILURE from
\* TRANSLATE, after one call and with no context assembled.
C8_Witness ==
    /\ phase = "FAILURE"
    /\ Len(calls) = 1
    /\ knowledge_context = <<>>
    /\ request.prompt = <<104, 1791>>

\* C9: a translation call that fails is the only call of the invocation (no
\* retry, no generation call) and the invocation ends in FAILURE with the
\* message of the error.
C9_TranslationFatal ==
    \A i \in 1..Len(calls) :
        (calls[i].kind = "translate" /\ calls[i].state = "error") =>
            /\ Len(calls) = 1
            /\ phase = "FAILURE"
            /\ outcome.status = 500
            /\ outcome.error = calls[i].error

\* C9 witness: the translation call failed with "quota".
C9_Witness ==
    /\ calls # <<>>
    /\ calls[1].kind = "translate"
    /\ calls[1].state = "error"
    /\ outcome.error = "quota"

\* A request that lacks the credential or the request text.
LacksCredentialOrText(data) ==
    \/ ~data.has_api_key \/ data.api_key = ""
    \/ ~data.has_prompt \/ data.prompt = <<>>

\* C10: a request that lacks the credential or the request text is rejected
\* with no model call issued, and neither the dict nor the folder changes.
C10_RejectedBeforeCalls ==
    /\ [][\A data \in Requests :
            (ReceiveRequest(data) /\ LacksCredentialOrText(data)) =>
                /\ phase' = "REJECTED"
                /\ outcome'.status = 400
                /\ calls' = <<>>
                /\ knowledge_base' = knowledge_base
                /\ dir' = dir]_vars
    /\ [](phase = "REJECTED" => calls = <<>>)
    /\ [](LacksCredentialOrText(request) /\ phase # "IDLE" => phase = "REJECTED")

\* C10 witness: a request without text was rejected while the dict holds a
\* resource.
C10_Witness ==
    /\ phase = "REJECTED"
    /\ ~request.has_prompt
    /\ request.has_api_key
    /\ knowledge_base # <<>>

\* The text holds a character of the range U+0600 to U+06FF.
HasScriptChar(text) == \E i \in 1..Len(text) : text[i] \in 1536..1791

TranslateCalls == {i \in 1..Len(calls) : calls[i].kind = "translate"}

HasTranslationNote(meta) == \E i \in 1..Len(meta) : meta[i].note = "Translated input"

\* C11: once phase 1 of an invocation is decided, a translation call has been
\* issued exactly if the request text holds a character of U+0600 to U+06FF;
\* when it holds none, every generation call carries the request text
\* unchanged and the answer has no translation note.
C11_TranslationGated ==
    phase \in {"TRANSLATE", "SKIP", "ASSEMBLE_CONTEXT", "GENERATE_WITH_TOOLS",
               "GENERATE_NO_TOOLS", "SUCCESS", "FAILURE"} =>
        /\ TranslateCalls # {} <=> HasScriptChar(request.prompt)
        /\ Cardinality(TranslateCalls) <= 1
        /\ ~HasScriptChar(request.prompt) =>
              /\ processed_prompt = request.prompt
              /\ ~was_translated
              /\ \A i \in 1..Len(calls) :
                    calls[i].kind = "generate" => calls[i].instruction.request = request.prompt
              /\ ~HasTranslationNote(outcome.meta)

\* C11 witness: an invocation whose request text lies just outside the range
\* on both sides succeeded after a generation call.
C11_Witness ==
    /\ phase = "SUCCESS"
    /\ request.prompt = <<1535, 1792>>
    /\ calls # <<>>
    /\ calls[1].kind = "generate"

ResourceNotes(meta) == {i \in 1..Len(meta) : meta[i].note = "Utilized internal resources"}

\* C12: the answer of a successful invocation, store requests of others
\* served in between included, has a resource note exactly if phase 2 put a
\* block into the context, and the number in the note is the number of the
\* blocks phase 2 assembled.
C12_NoteCountsBlocks ==
    phase = "SUCCESS" =>
        /\ ResourceNotes(outcome.meta) # {} <=> knowledge_context # <<>>
        /\ \A i \in ResourceNotes(outcome.meta) :
              outcome.meta[i].arg = Len(knowledge_context)

\* C13: a sync that follows a completed sync, the folder unchanged in
\* between, leaves the dict as the first sync left it: the same filenames in
\* the same order with the same texts.
C13_SyncIdempotent ==
    [][(JustSynced /\ resp'.op = "startup") => knowledge_base' = knowledge_base]_vars

\* C13 witness: a sync followed a sync directly over a folder with more
\* loadable files than MAX_FILES, and the dict is full.
C13_Witness ==
    /\ resp.op = "startup"
    /\ resp.message = "again"
    /\ Cardinality(Loadable(dir)) > MAX_FILES
    /\ Len(knowledge_base) = MAX_FILES

\* C14: right after a sync every key of the dict names a file of the folder
\* with an allowed extension and carries the text loaded from that file as it
\* is now; a step that ends with a sync keeps no entry for a file that is no
\* longer in the folder.
C14_StoreFromFolder ==
    /\ [](JustSynced =>
            \A i \in 1..Len(knowledge_base) :
                LET f == knowledge_base[i].name IN
                /\ f \in DirNames
                /\ dir[f] # Absent
                /\ allowed_file(f)
                /\ knowledge_base[i].content = load_file_content(Body(dir[f]), f))
    /\ [][JustSynced' =>
            \A f \in Keys(knowledge_base) : dir'[f] = Absent => f \notin Keys(knowledge_base')]_vars

\* C14 witness: a sync ran after some other step over a folder that holds a
\* file with a disallowed extension and lacks a.txt; the dict holds other
\* files and neither of the two.
C14_Witness ==
    /\ resp.op = "startup"
    /\ resp.message = ""
    /\ dir[ExeName] # Absent
    /\ dir[PlainName] = Absent
    /\ knowledge_base # <<>>
    /\ {ExeName, PlainName} \cap Keys(knowledge_base) = {}

\* The last step was a clear_resources request that was answered.
Cleared == resp.op = "clear_resources" /\ resp.status = 200

\* C15 as stated: after a clear of a store with files the folder holds no
\* files and the dict is empty, and the list that follows reports count 0.
C15_AsStated ==
    /\ [][(Cleared' /\ knowledge_base # <<>>) =>
            FileCount(dir') = 0 /\ knowledge_base' = <<>>]_vars
    /\ [][(Cleared /\ resp'.op = "get_resources") =>
            resp'.status = 200 /\ resp'.body.count = 0]_vars

\* C15 amended: after a clear the dict is empty and the answer says count 0;
\* the folder holds no files if no deletion failed.  A list that follows a
\* clear or a list, the dict empty and the folder without files, runs its
\* lazy sync, succeeds, reports count 0 and leaves dict and folder as they
\* are.
C15_ClearThenLists ==
    /\ [](Cleared =>
            /\ knowledge_base = <<>>
            /\ resp.body.count = 0
            /\ resp.body.failed = {} => FileCount(dir) = 0)
    /\ [][(/\ resp.op \in {"clear_resources", "get_resources"}
           /\ resp.status = 200
           /\ knowledge_base = <<>>
           /\ FileCount(dir) = 0
           /\ resp'.op = "get_resources") =>
            /\ resp'.status = 200
            /\ resp'.body.count = 0
            /\ resp'.body.files = <<>>
            /\ knowledge_base' = <<>>
            /\ dir' = dir]_vars

\* C15 witness: a clear in which no deletion failed was answered; the folder
\* holds no files and the dict is empty.
C15_Witness ==
    /\ Cleared
    /\ resp.body.failed = {}
    /\ FileCount(dir) = 0
    /\ knowledge_base = <<>>

\* The bytes of the file an accepted upload has put into the folder.
UploadedBytes == Body(dir[resp.body.filename]).bytes

\* The last step accepted the upload of a plain-text file of ASCII bytes only.
AcceptedAsciiText ==
    /\ AcceptedAdd
    /\ Lower(RSplitExt(resp.body.filename)) = "txt"
    /\ \A i \in 1..Len(UploadedBytes) : UploadedBytes[i] \in {"h", "i", "k", "\r", "\n"}

\* The sizes a list answer reports for a filename.
SizesOf(files, filename) == {files[i].size : i \in {j \in 1..Len(files) : files[j].name = filename}}

\* C16 as stated: the list that follows the accepted upload of an ASCII-only
\* plain-text file reports for it the number of bytes uploaded.
C16_AsStated ==
    [][(AcceptedAsciiText /\ resp'.op = "get_resources") =>
          /\ resp'.status = 200
          /\ SizesOf(resp'.body.files, resp.body.filename) = {Len(UploadedBytes)}]_vars

\* C16 amended: the list that follows the accepted upload of an ASCII-only
\* plain-text file succeeds; if it has an entry for the file, the file is not
\* empty and the entry's size is the number of bytes uploaded less one for
\* every "\r\n" pair, which is the number of bytes when the file holds no
\* carriage return.
C16_SizeOfAsciiText ==
    [][(AcceptedAsciiText /\ resp'.op = "get_resources") =>
          /\ resp'.status = 200
          /\ \A size \in SizesOf(resp'.body.files, resp.body.filename) :
                /\ UploadedBytes # <<>>
                /\ size = Len(UploadedBytes)
                          - Cardinality({i \in 1..(Len(UploadedBytes) - 1) :
                                           UploadedBytes[i] = "\r" /\ UploadedBytes[i + 1] = "\n"})
                /\ (\A i \in 1..Len(UploadedBytes) : UploadedBytes[i] # "\r") =>
                      size = Len(UploadedBytes)]_vars

\* C16 witness: a list reports size 2 for a.txt, which holds the two bytes
\* "hi".
C16_Witness ==
    /\ resp.op = "get_resources"
    /\ resp.status = 200
    /\ dir[PlainName] = "hi"
    /\ 2 \in SizesOf(resp.body.files, PlainName)

\* The step was a request whose sync could not list the folder.
SyncCouldNotList ==
    /\ resp'.op \in {"get_resources", "upload_resource"}
    /\ resp'.status = 500
    /\ resp'.message = "listdir failed"

\* C17: a request whose sync cannot list the folder leaves the dict as it
\* was, entry for entry, and fails.
C17_FailedSyncKeepsStore ==
    /\ [][SyncCouldNotList => knowledge_base' = knowledge_base /\ dir' = dir]_vars
    /\ [][(~folder /\ resp'.op = "upload_resource"
           /\ resp'.message \notin {"No file part", "No selected file"}) =>
            SyncCouldNotList]_vars

\* C17 witness: an upload failed in its first sync, the folder gone, while the
\* dict holds the resources loaded before.
C17_Witness ==
    /\ resp.op = "upload_resource"
    /\ resp.message = "listdir failed"
    /\ ~folder
    /\ Len(knowledge_base) > 1

\* The step was a /get_resources request.
Listed == resp'.op = "get_resources"

\* The files list that reports the entries of kb, with the length of each text.
Reports(files, kb) ==
    /\ Len(files) = Len(kb)
    /\ \A i \in 1..Len(kb) :
          files[i].name = kb[i].name /\ files[i].size = TextLen(kb[i].content)

\* C18: a list syncs first exactly if the dict is empty when it is called.
\* On a dict that is not empty it answers from the dict as it is, whether or
\* not the folder still has the files, or is there at all, and leaves the dict
\* alone; on an empty dict it fails if the folder cannot be listed and answers
\* from the folder otherwise.
C18_LazySync ==
    /\ [][(Listed /\ knowledge_base # <<>>) =>
            /\ resp'.status = 200
            /\ knowledge_base' = knowledge_base
            /\ Reports(resp'.body.files, knowledge_base)
            /\ resp'.body.count = Len(knowledge_base)]_vars
    /\ [][(Listed /\ knowledge_base = <<>>) =>
            /\ resp'.status = 200 <=> folder
            /\ folder =>
                 /\ Keys(knowledge_base') =
                       {f \in Loadable(dir) : Cardinality(Before(Loadable(dir), f)) < MAX_FILES}
                 /\ Reports(resp'.body.files, knowledge_base')]_vars

\* C18 witness: a list answered with fewer than MAX_FILES entries and none for
\* a.txt, which is in the folder with a text to load.
C18_Witness ==
    /\ resp.op = "get_resources"
    /\ resp.status = 200
    /\ resp.body.count \in 1..(MAX_FILES - 1)
    /\ dir[PlainName] = "hi"
    /\ SizesOf(resp.body.files, PlainName) = {}

\* C19: a clear that is answered has emptied the dict, whether or not a
\* deletion failed; the files left in the folder are the ones whose deletion
\* failed, unchanged, and every other file is gone, the ones the listing
\* reports after a failed one included.
C19_ClearGoesOn ==
    [][Cleared' =>
          /\ knowledge_base' = <<>>
          /\ \A f \in DirNames :
                dir'[f] = (IF f \in resp'.body.failed THEN dir[f] ELSE Absent)]_vars

\* C19 witness: a clear was answered after the deletion of d.tar.TXT, the
\* first file of the listing, failed; the dict is empty and d.tar.TXT is the
\* only file left.
C19_Witness ==
    /\ Cleared
    /\ resp.body.failed = {UpperName}
    /\ FileCount(dir) = 1
    /\ dir[UpperName] # Absent
    /\ knowledge_base = <<>>

\* The step is phase 2 of an invocation.
Assembles == phase = "ASSEMBLE_CONTEXT" /\ phase' = "GENERATE_WITH_TOOLS"

\* text is the first 40,000 characters of content, or all of it if it has
\* fewer.
IsCappedPrefix(text, content) ==
    /\ TextLen(text) = (IF TextLen(content) < 40000 THEN TextLen(content) ELSE 40000)
    /\ Len(text) <= Len(content)
    /\ \A j \in 1..Len(text) : text[j] = content[j]

RECURSIVE TotalChars(_)
TotalChars(context) ==
    IF context = <<>> THEN 0 ELSE TextLen(Head(context).text) + TotalChars(Tail(context))

\* C20: phase 2 assembles one block for every entry of the dict, in the order
\* of the dict, each labelled with the filename of its entry and carrying the
\* first 40,000 characters of the entry's text (all of a shorter text); the
\* instruction of the generation call carries these blocks, and the resource
\* text of a context is at most MAX_FILES times 40,000 characters.
C20_ContextBlocks ==
    /\ [][Assembles =>
            /\ Len(knowledge_context') = Len(knowledge_base)
            /\ \A i \in 1..Len(knowledge_base) :
                  /\ knowledge_context'[i].fname = knowledge_base[i].name
                  /\ IsCappedPrefix(knowledge_context'[i].text, knowledge_base[i].content)
            /\ calls'[Len(calls')].instruction.context = knowledge_context']_vars
    /\ [](TotalChars(knowledge_context) <= MAX_FILES * 40000)

\* C20 witness: the context was assembled from two resources; the text of
\* the first is longer than 40,000 characters and its block carries 40,000 of
\* them.
C20_Witness ==
    /\ phase = "GENERATE_WITH_TOOLS"
    /\ Len(knowledge_context) = 2
    /\ Len(knowledge_base) = 2
    /\ TextLen(knowledge_base[1].content) > 40000
    /\ TextLen(knowledge_context[1].text) = 40000
    /\ knowledge_context[2].fname = PlainName

====
